---- MODULE Spec2Model ----
(***************************************************************************)
(* Model of the Open-DCAs dashboard: the JupiterDCAAPI client              *)
(* (api/jupiter.ts: withRetry, getCurrentPrice, getDCAAccounts,            *)
(* calculateSummaryFromRawAccounts, convertDCAAccount) and the polling     *)
(* logic of the DCADashboard component (fetchData, the initial-fetch       *)
(* effect, the auto-refresh effect, the Refresh Now button and the         *)
(* auto-refresh checkbox).                                                 *)
(*                                                                         *)
(* Numbers: every quantity the code obtains by dividing a base-unit amount *)
(* by Math.pow(10, 6) is represented exactly, as an integer number of      *)
(* millionths.  Prices are whole quote units.                              *)
(***************************************************************************)
EXTENDS Integers, Sequences, FiniteSets, TLC

VARIABLES
    mounted,         \* the component has mounted (both mount effects have run)
    dca,             \* JupiterDCAAPI.dca is set (the SDK client was constructed)
    autoRefresh,     \* useState autoRefresh
    intervalId,      \* intervalId captured by the current auto-refresh effect (0: undefined)
    armedIntervals,  \* number of window.setInterval timers that are armed
    pendingRetries,  \* delays of the setTimeout(fetchData, 2000) timers that are armed
    cycles,          \* executions of fetchData in flight, in the order they started
    positions,       \* useState positions
    summaryData,     \* useState summaryData
    chartData,       \* useState chartData
    loading,         \* useState loading
    error,           \* useState error
    lastUpdate,      \* useState lastUpdate
    caught,          \* the error the catch block of fetchData logged last
    failBit,         \* flips whenever fetchData fails before its first suspension
    rawAccounts,     \* allAccounts of the cycle that published last
    priceResponses   \* answers of the price source to the cycle that published last

vars == <<mounted, dca, autoRefresh, intervalId, armedIntervals, pendingRetries,
          cycles, positions, summaryData, chartData, loading, error, lastUpdate,
          caught, failBit, rawAccounts, priceResponses>>

----------------------------------------------------------------------------
(* Bounds of the model *)

\* fetch cycles in flight plus armed one-shot retries
MaxInFlight == 2

\* length of the account list dca.getAll() resolves with in AggSpec
MaxAccounts == 3

----------------------------------------------------------------------------
(* Program constants *)

LOGOS_MINT == "HJUf...pump"
CHAOS_MINT == "8SgN...pump"
USDC_MINT == "EPjF...Dt1v"
SOL_MINT == "So11...1112"

Tokens == {"LOGOS", "CHAOS"}

maxRetries == 3

Million == 1000000

null == "null"

\* an optional value: undefined, or a value v
undefined == <<>>
Some(v) == <<v>>

FetchErrorMessage == "Failed to fetch data. Retrying..."

\* the delay of the one-shot retry, in milliseconds
RetryDelay == 2000

----------------------------------------------------------------------------
(* Raw accounts *)

Acct(key, inMint, outMint, dep, wd, per, minOut) ==
    [publicKey |-> key, inputMint |-> inMint, outputMint |-> outMint,
     inDeposited |-> dep, inWithdrawn |-> wd, inAmountPerCycle |-> per,
     cycleFrequency |-> 60, nextCycleAt |-> 1700, minOutAmount |-> minOut]

\* a buy and a sell of each tracked token, an order that sells one tracked
\* token for the other, and an order that involves no tracked token
A1 == Acct("A1", USDC_MINT,  LOGOS_MINT, 1000000, 0,       1000000, undefined)
A2 == Acct("A2", LOGOS_MINT, USDC_MINT,  2000000, 0,       500000,  Some(4000000))
A3 == Acct("A3", USDC_MINT,  CHAOS_MINT, 3500000, 1000000, 500000,  undefined)
A4 == Acct("A4", CHAOS_MINT, USDC_MINT,  1500000, 0,       1500000, undefined)
A5 == Acct("A5", LOGOS_MINT, CHAOS_MINT, 1000000, 500000,  250000,  undefined)
A6 == Acct("A6", USDC_MINT,  SOL_MINT,   9000000, 0,       1000000, undefined)

\* the accounts the account source may hold
AccountUniverse == {A1, A2, A3, A4, A5, A6}

RECURSIVE SeqsUpTo(_, _)
\* the lists of at most n distinct elements of S
SeqsUpTo(S, n) ==
    IF n = 0 THEN {<<>>}
    ELSE LET shorter == SeqsUpTo(S, n - 1)
         IN  shorter \cup
             { Append(s, x) : s \in {t \in shorter : Len(t) = n - 1},
                              x \in S }

Distinct(s) == \A a, b \in DOMAIN s : a # b => s[a].publicKey # s[b].publicKey

\* what dca.getAll() may resolve with
AccountLists == { s \in SeqsUpTo(AccountUniverse, MaxAccounts) : Distinct(s) }

\* what the price endpoint may answer for one mint: the request throws, the
\* answer has no entry for the mint, or it carries a price
PriceResponses ==
    { [kind |-> "error", price |-> 0], [kind |-> "missing", price |-> 0] }
    \cup { [kind |-> "price", price |-> p] : p \in {0, 2, 3} }

PriceFailed(resp) == resp.kind \in {"error", "missing"}

----------------------------------------------------------------------------
(* api/jupiter.ts: the aggregator *)

\* (mutant) getCurrentPrice falling back to 1 instead of 0
getCurrentPriceFallbackOne(resp) ==
    IF resp.kind = "price" THEN resp.price ELSE 1

\* getCurrentPrice: the price of the answer, 0 when it is missing or the
\* request threw
getCurrentPrice(resp) ==
    IF resp.kind = "price" THEN resp.price ELSE 0

\* allAccounts.filter(acc => acc.account[field].equals(new PublicKey(mint)))
filter(accs, field, mint) == SelectSeq(accs, LAMBDA acc : acc[field] = mint)

Mint(token) == IF token = "LOGOS" THEN LOGOS_MINT ELSE CHAOS_MINT

buysOf(allAccounts, token) == filter(allAccounts, "outputMint", Mint(token))

\* (mutant) the sells filtered on the output mint, as the buys are
sellsOfOutputMint(allAccounts, token) == filter(allAccounts, "outputMint", Mint(token))

sellsOf(allAccounts, token) == filter(allAccounts, "inputMint", Mint(token))

\* getDCAAccounts, "2. Initial categorization"
accountsByToken(allAccounts) ==
    [t \in Tokens |-> [buys  |-> buysOf(allAccounts, t),
                       sells |-> sellsOf(allAccounts, t)]]

\* Math.round of a number given in millionths (rounds half up)
Round(millionths) == (millionths + (Million \div 2)) \div Million

\* inDeposited.sub(inWithdrawn).toNumber() / 10^6, in millionths
remaining(acc) == acc.inDeposited - acc.inWithdrawn

\* inAmountPerCycle.toNumber() / 10^6, in millionths
perCycle(acc) == acc.inAmountPerCycle

RECURSIVE volume(_)
\* accs.reduce((sum, acc) => sum + remaining(acc), 0)
volume(accs) ==
    IF accs = <<>> THEN 0 ELSE remaining(Head(accs)) + volume(Tail(accs))

RECURSIVE perCycleTotal(_)
\* accs.reduce((sum, acc) => sum + perCycle(acc), 0)
perCycleTotal(accs) ==
    IF accs = <<>> THEN 0 ELSE perCycle(Head(accs)) + perCycleTotal(Tail(accs))

RECURSIVE usdcTotal(_, _)
\* accs.reduce((sum, acc) => sum + remaining(acc) * price, 0)
usdcTotal(accs, price) ==
    IF accs = <<>> THEN 0
    ELSE remaining(Head(accs)) * price + usdcTotal(Tail(accs), price)

sellVolumeUSDC(sells, price) == Round(usdcTotal(sells, price))

buyVolumeUSDC(buys) == Round(perCycleTotal(buys))

tokenSummary(part, price) ==
    [buyOrders      |-> Len(part.buys),
     sellOrders     |-> Len(part.sells),
     buyVolume      |-> volume(part.buys),
     sellVolume     |-> volume(part.sells),
     buyVolumeUSDC  |-> buyVolumeUSDC(part.buys),
     sellVolumeUSDC |-> sellVolumeUSDC(part.sells, price)]

calculateSummaryFromRawAccounts(byToken, prices) ==
    [t \in Tokens |-> tokenSummary(byToken[t], prices[t])]

convertDCAAccount(account, price, token, type) ==
    [id              |-> account.publicKey,
     token           |-> token,
     type            |-> type,
     inputToken      |-> IF type = "BUY" THEN "USDC" ELSE token,
     outputToken     |-> IF type = "BUY" THEN token ELSE "USDC",
     inputAmount     |-> perCycle(account),
     totalAmount     |-> remaining(account),
     amountPerCycle  |-> perCycle(account),
     remainingCycles |-> account.cycleFrequency,
     cycleFrequency  |-> account.cycleFrequency,
     lastUpdate      |-> account.nextCycleAt * 1000,
     publicKey       |-> account.publicKey,
     targetPrice     |-> IF account.minOutAmount = undefined THEN 0
                         ELSE account.minOutAmount[1],
     currentPrice    |-> price,
     priceToken      |-> "USDC",
     estimatedOutput |-> IF type = "SELL" THEN Some(perCycle(account) * price)
                         ELSE undefined]

\* accs.map(acc => this.convertDCAAccount(acc, price, token, type))
convertAll(accs, price, token, type) ==
    [n \in DOMAIN accs |-> convertDCAAccount(accs[n], price, token, type)]

\* (mutant) the positions without the sells of CHAOS
positionsOfNoChaosSells(byToken) ==
    convertAll(byToken["LOGOS"].buys, 0, "LOGOS", "BUY")
    \o convertAll(byToken["LOGOS"].sells, 0, "LOGOS", "SELL")
    \o convertAll(byToken["CHAOS"].buys, 0, "CHAOS", "BUY")

\* getDCAAccounts, "4. Then process individual positions"
positionsOf(byToken) ==
    convertAll(byToken["LOGOS"].buys, 0, "LOGOS", "BUY")
    \o convertAll(byToken["LOGOS"].sells, 0, "LOGOS", "SELL")
    \o convertAll(byToken["CHAOS"].buys, 0, "CHAOS", "BUY")
    \o convertAll(byToken["CHAOS"].sells, 0, "CHAOS", "SELL")

\* getDCAAccounts, "5. Update prices and positions"
positionsWithPrices(poss, prices) ==
    [n \in DOMAIN poss |->
        [poss[n] EXCEPT !.currentPrice =
            IF poss[n].token = "LOGOS" THEN prices["LOGOS"] ELSE prices["CHAOS"]]]

chartDataOf(summary) ==
    [t \in Tokens |->
        << [buyVolume  |-> summary[t].buyVolume,
            sellVolume |-> summary[t].sellVolume,
            buyOrders  |-> summary[t].buyOrders,
            sellOrders |-> summary[t].sellOrders] >>]

\* getDCAAccounts from the point where withRetry has returned allAccounts:
\* the snapshot built from the accounts and the two answers of the price source
snapshot(allAccounts, responses) ==
    LET byToken == accountsByToken(allAccounts)
        prices  == [t \in Tokens |-> getCurrentPrice(responses[t])]
        summary == calculateSummaryFromRawAccounts(byToken, prices)
    IN  [positions |-> positionsWithPrices(positionsOf(byToken), prices),
         summary   |-> summary,
         chartData |-> chartDataOf(summary)]

----------------------------------------------------------------------------
(* The network, as the poll controller sees it *)

\* what dca.getAll() may do in a poll: reject, resolve with nothing, or
\* resolve with a list of accounts (which may be empty)
PollAccountLists == { <<>>, <<A1, A2, A5, A6>> }

GetAllResponses ==
    { [kind |-> "throw", accounts |-> <<>>], [kind |-> "null", accounts |-> <<>>] }
    \cup { [kind |-> "list", accounts |-> l] : l \in PollAccountLists }

\* what the price endpoint may answer to the two requests of a poll: it is
\* down, or it quotes both tokens
PollPriceResponses ==
    { [t \in Tokens |-> [kind |-> "error", price |-> 0]],
      [t \in Tokens |-> [kind |-> "price", price |-> 2]] }

----------------------------------------------------------------------------
(* api/jupiter.ts: withRetry and the operation getDCAAccounts wraps in it *)

\* (mutant) the operation without its check for an empty or missing result
operationUnchecked(resp) ==
    IF resp.kind = "throw"
    THEN [ok |-> FALSE, err |-> "NetworkError", value |-> <<>>]
    ELSE [ok |-> TRUE, err |-> "none", value |-> resp.accounts]

\* the operation passed to withRetry: dca.getAll(), an empty or missing
\* result thrown as an error
operation(resp) ==
    IF resp.kind = "throw"
    THEN [ok |-> FALSE, err |-> "NetworkError", value |-> <<>>]
    ELSE IF resp.kind = "null" \/ Len(resp.accounts) = 0
         THEN [ok |-> FALSE, err |-> "No accounts returned", value |-> <<>>]
         ELSE [ok |-> TRUE, err |-> "none", value |-> resp.accounts]

\* (mutant) the delay computed from the loop index alone
backoffDelayFromIndex(i) == 1000 * i

\* the delay withRetry waits after the attempt with loop index i has failed
backoffDelay(i) == 1000 * (i + 1)

\* a cycle as fetchData begins it: inside withRetry, loop index 0, first
\* attempt invoked, no delay waited; `overtaken` records that a cycle which
\* started after this one has published
newCycle ==
    [pc |-> "getAll", i |-> 0, lastError |-> "none", delay |-> 0,
     accounts |-> <<>>, overtaken |-> FALSE]

\* withRetry after an attempt of cycle c has settled with outcome out:
\* return on success (the locals of withRetry are gone with its frame), else
\* remember the error and wait
afterAttempt(c, out) ==
    IF out.ok
    THEN [c EXCEPT !.pc = "prices", !.accounts = out.value, !.i = 0,
                   !.lastError = "none", !.delay = 0]
    ELSE [c EXCEPT !.pc = "backoff", !.lastError = out.err,
                   !.delay = backoffDelay(c.i)]

\* withRetry when the delay of cycle c is over: the loop goes on to the next
\* index; pc "throw" when the loop is left (throw lastError)
afterBackoff(c) ==
    IF c.i + 1 < maxRetries
    THEN [c EXCEPT !.pc = "getAll", !.i = c.i + 1]
    ELSE [c EXCEPT !.pc = "throw", !.i = c.i + 1]

Remove(seq, k) == SubSeq(seq, 1, k - 1) \o SubSeq(seq, k + 1, Len(seq))

\* the cycles in flight once cycle k has published: k is gone, and those that
\* started before k are overtaken
afterPublish(k) ==
    Remove([j \in DOMAIN cycles |->
               IF j < k THEN [cycles[j] EXCEPT !.overtaken = TRUE] ELSE cycles[j]],
           k)

----------------------------------------------------------------------------
(* components/DCADashboard.tsx *)

\* (mutant) the catch block without its setTimeout(fetchData, 2000)
catchBlockNoRetry(err, armed) ==
    /\ caught' = err
    /\ error' = FetchErrorMessage
    /\ pendingRetries' = armed

\* the catch block of fetchData for the error err, `armed` being the one-shot
\* retries armed before it
catchBlock(err, armed) ==
    /\ caught' = err
    /\ error' = FetchErrorMessage
    /\ pendingRetries' = Append(armed, RetryDelay)

\* new Date(): the wall clock has moved on since the Date stored last, so the
\* value differs from it; two values tell a fresh Date from the stored one
newDate(stored) == 1 - stored

\* the success path of fetchData, from the check of data to setLoading(false)
publish(data) ==
    /\ positions' = data.positions
    /\ summaryData' = data.summary
    /\ chartData' = data.chartData
    /\ lastUpdate' = newDate(lastUpdate)
    /\ loading' = FALSE

\* fetchData up to its first suspension: setLoading, setError, and the call of
\* getDCAAccounts, which throws at once when the SDK client is not set
\* (the rejection is caught before any other task runs)
fetchData(armed) ==
    /\ loading' = TRUE
    /\ IF dca
       THEN /\ error' = null
            /\ cycles' = Append(cycles, newCycle)
            /\ pendingRetries' = armed
            /\ UNCHANGED <<caught, failBit>>
       ELSE /\ catchBlock("DCA SDK not initialized", armed)
            /\ cycles' = cycles
            /\ failBit' = ~failBit
    /\ UNCHANGED <<positions, summaryData, chartData, lastUpdate, rawAccounts,
                   priceResponses>>

\* (mutant) the auto-refresh effect returning no cleanup
autoRefreshEffectNoCleanup(enabled) ==
    /\ intervalId' = IF enabled THEN 1 ELSE 0
    /\ armedIntervals' = IF enabled THEN armedIntervals + 1 ELSE armedIntervals

\* the auto-refresh effect for the value `enabled` of autoRefresh: the cleanup
\* of the effect before it, then the effect
autoRefreshEffect(enabled) ==
    LET cleared == IF intervalId # 0 THEN armedIntervals - 1 ELSE armedIntervals
    IN  /\ intervalId' = IF enabled THEN 1 ELSE 0
        /\ armedIntervals' = IF enabled THEN cleared + 1 ELSE cleared

\* external triggers are taken while the cycles in flight and the armed
\* retries are fewer than MaxInFlight
Room == Len(cycles) + Len(pendingRetries) < MaxInFlight

\* first render: the initial-fetch effect, then the auto-refresh effect
Mount ==
    /\ ~mounted
    /\ mounted' = TRUE
    /\ fetchData(pendingRetries)
    /\ autoRefreshEffect(autoRefresh)
    /\ UNCHANGED <<dca, autoRefresh>>

\* the interval timer fires
IntervalTick ==
    /\ mounted
    /\ armedIntervals > 0
    /\ Room
    /\ fetchData(pendingRetries)
    /\ UNCHANGED <<mounted, dca, autoRefresh, intervalId, armedIntervals>>

\* the Refresh Now button
RefreshNow ==
    /\ mounted
    /\ Room
    /\ fetchData(pendingRetries)
    /\ UNCHANGED <<mounted, dca, autoRefresh, intervalId, armedIntervals>>

\* (mutant) the one-shot retry calls fetchData only while auto-refresh is on
RetryFireIfAutoRefresh ==
    /\ pendingRetries # <<>>
    /\ autoRefresh
    /\ fetchData(Tail(pendingRetries))
    /\ UNCHANGED <<mounted, dca, autoRefresh, intervalId, armedIntervals>>

\* a one-shot timer armed by the catch block fires
RetryFire ==
    /\ pendingRetries # <<>>
    /\ fetchData(Tail(pendingRetries))
    /\ UNCHANGED <<mounted, dca, autoRefresh, intervalId, armedIntervals>>

\* (mutant) the cleanup of the auto-refresh effect also drops the cycles in flight
SetAutoRefreshAborting(enabled) ==
    /\ mounted
    /\ autoRefresh' = enabled
    /\ IF enabled # autoRefresh
       THEN autoRefreshEffect(enabled) /\ cycles' = <<>>
       ELSE UNCHANGED <<intervalId, armedIntervals, cycles>>
    /\ UNCHANGED <<mounted, dca, pendingRetries, positions, summaryData,
                   chartData, loading, error, lastUpdate, caught, failBit,
                   rawAccounts, priceResponses>>

\* the auto-refresh checkbox: setAutoRefresh(enabled); an unchanged value
\* re-renders nothing and runs no effect
SetAutoRefresh(enabled) ==
    /\ mounted
    /\ autoRefresh' = enabled
    /\ IF enabled # autoRefresh
       THEN autoRefreshEffect(enabled)
       ELSE UNCHANGED <<intervalId, armedIntervals>>
    /\ UNCHANGED <<mounted, dca, pendingRetries, cycles, positions, summaryData,
                   chartData, loading, error, lastUpdate, caught, failBit,
                   rawAccounts, priceResponses>>

\* dca.getAll() of cycle k settles
GetAllSettles(k, resp) ==
    /\ k \in DOMAIN cycles
    /\ cycles[k].pc = "getAll"
    /\ cycles' = [cycles EXCEPT ![k] = afterAttempt(cycles[k], operation(resp))]
    /\ UNCHANGED <<mounted, dca, autoRefresh, intervalId, armedIntervals,
                   pendingRetries, positions, summaryData, chartData, loading,
                   error, lastUpdate, caught, failBit, rawAccounts, priceResponses>>

\* the delay of withRetry in cycle k is over: next attempt, or throw lastError,
\* which getDCAAccounts rethrows and fetchData catches
BackoffDone(k) ==
    /\ k \in DOMAIN cycles
    /\ cycles[k].pc = "backoff"
    /\ LET c == afterBackoff(cycles[k])
       IN  IF c.pc = "throw"
           THEN /\ cycles' = Remove(cycles, k)
                /\ catchBlock(c.lastError, pendingRetries)
           ELSE /\ cycles' = [cycles EXCEPT ![k] = c]
                /\ UNCHANGED <<error, caught, pendingRetries>>
    /\ UNCHANGED <<mounted, dca, autoRefresh, intervalId, armedIntervals,
                   positions, summaryData, chartData, loading, lastUpdate,
                   failBit, rawAccounts, priceResponses>>

\* both price requests of cycle k have settled: getDCAAccounts returns the
\* snapshot and fetchData publishes it
PricesSettle(k, responses) ==
    /\ k \in DOMAIN cycles
    /\ cycles[k].pc = "prices"
    /\ \E data \in {snapshot(cycles[k].accounts, responses)} : publish(data)
    /\ rawAccounts' = cycles[k].accounts
    /\ priceResponses' = responses
    /\ cycles' = afterPublish(k)
    /\ UNCHANGED <<mounted, dca, autoRefresh, intervalId, armedIntervals,
                   pendingRetries, error, caught, failBit>>

\* initDCA, one second after `new DCA` threw: it throws again or succeeds
InitDCA(ok) ==
    /\ ~dca
    /\ dca' = ok
    /\ UNCHANGED <<mounted, autoRefresh, intervalId, armedIntervals,
                   pendingRetries, cycles, positions, summaryData, chartData,
                   loading, error, lastUpdate, caught, failBit, rawAccounts,
                   priceResponses>>

noResponses == [t \in Tokens |-> [kind |-> "error", price |-> 0]]

\* the component before its first render; the constructor of JupiterDCAAPI has
\* run, `new DCA` having thrown or not
Init ==
    /\ mounted = FALSE
    /\ dca \in BOOLEAN
    /\ autoRefresh = TRUE
    /\ intervalId = 0
    /\ armedIntervals = 0
    /\ pendingRetries = <<>>
    /\ cycles = <<>>
    /\ positions = <<>>
    /\ summaryData = <<>>
    /\ chartData = <<>>
    /\ loading = TRUE
    /\ error = null
    /\ lastUpdate = 0
    /\ caught = "none"
    /\ failBit = FALSE
    /\ rawAccounts = <<>>
    /\ priceResponses = noResponses

Next ==
    \/ Mount
    \/ IntervalTick
    \/ RefreshNow
    \/ RetryFire
    \/ \E enabled \in BOOLEAN : SetAutoRefresh(enabled)
    \/ \E k \in 1..MaxInFlight, resp \in GetAllResponses : GetAllSettles(k, resp)
    \/ \E k \in 1..MaxInFlight : BackoffDone(k)
    \/ \E k \in 1..MaxInFlight, r \in PollPriceResponses : PricesSettle(k, r)
    \/ \E ok \in BOOLEAN : InitDCA(ok)

Spec == Init /\ [][Next]_vars

\* timers that are armed fire
LiveSpec == Spec /\ WF_vars(RetryFire)

\* One fetch cycle from the point where withRetry has returned allAccounts,
\* for every list of accounts and every pair of answers of the price source
AggInit ==
    /\ mounted = TRUE
    /\ dca = TRUE
    /\ autoRefresh = TRUE
    /\ intervalId = 1
    /\ armedIntervals = 1
    /\ pendingRetries = <<>>
    /\ \E l \in AccountLists \ {<<>>} :
          cycles = << [newCycle EXCEPT !.pc = "prices", !.accounts = l] >>
    /\ positions = <<>>
    /\ summaryData = <<>>
    /\ chartData = <<>>
    /\ loading = TRUE
    /\ error = null
    /\ lastUpdate = 0
    /\ caught = "none"
    /\ failBit = FALSE
    /\ rawAccounts = <<>>
    /\ priceResponses = noResponses

AggNext == \E r \in [Tokens -> PriceResponses] : PricesSettle(1, r)

AggSpec == AggInit /\ [][AggNext]_vars

----------------------------------------------------------------------------
(* Steps, as the claims speak of them *)

\* fetchData is called by a trigger other than the one-shot retry
StartStep == Mount \/ IntervalTick \/ RefreshNow

\* withRetry of cycle k gives up and the cycle fails
ExhaustStep(k) == BackoffDone(k) /\ cycles[k].i + 1 >= 3

\* cycle k completes successfully
PublishStep(k) == \E r \in PollPriceResponses : PricesSettle(k, r)

\* an attempt of withRetry in cycle k settles
AttemptStep(k) == \E resp \in GetAllResponses : GetAllSettles(k, resp)

Slots == 1..(MaxInFlight + 1)

----------------------------------------------------------------------------
(* Claims *)

\* C1: at most one fetch cycle is outstanding at any time, whatever the
\* interleaving of the initial fetch, the interval timer, Refresh Now and the
\* one-shot retry.
C1_SingleOutstandingCycle == Len(cycles) <= 1

\* C2: every fetch cycle that fails publishes the error state and arms exactly
\* one one-shot retry with a delay of 2 seconds, and an armed retry can fire
\* whether or not auto-refresh is enabled.
C2_FailureArmsOneRetry ==
    /\ [][ /\ (\/ \E k \in Slots : ExhaustStep(k)
               \/ (~dca /\ StartStep))
              => (error' = FetchErrorMessage
                  /\ pendingRetries' = Append(pendingRetries, 2000))
           /\ (~dca /\ RetryFire)
              => (error' = FetchErrorMessage
                  /\ pendingRetries' = Append(Tail(pendingRetries), 2000))
         ]_vars
    /\ [](pendingRetries # <<>> => ENABLED RetryFire)

C2_Witness ==
    /\ error # null
    /\ pendingRetries = <<2000>>
    /\ ~autoRefresh
    /\ caught = "NetworkError"

\* C4: once mounted, exactly one interval timer is armed while auto-refresh is
\* enabled and none while it is disabled, after any sequence of toggles; the
\* timer starts cycles only while auto-refresh is enabled.
C4_OneIntervalIffAutoRefresh ==
    mounted =>
        /\ armedIntervals = (IF autoRefresh THEN 1 ELSE 0)
        /\ (ENABLED IntervalTick) => autoRefresh

C4_Witness == mounted /\ ~autoRefresh /\ armedIntervals = 0 /\ intervalId = 0

\* C5: no failure is terminal.  Under fair scheduling of the timers, whenever
\* a fetch cycle has failed (the error state is published), fetchData is
\* eventually called again, also while auto-refresh is disabled: a new cycle
\* starts (which clears the error state) or fails at once (which flips failBit).
C5_FailureIsRetried ==
    \A b \in BOOLEAN :
        (error # null /\ failBit = b) ~> (error = null \/ failBit # b)

C5_Witness == error # null /\ ~autoRefresh /\ pendingRetries # <<>> /\ cycles = <<>>

\* The steps of withRetry C3 speaks of: an attempt that succeeds returns its
\* result and no further attempt of that call follows; an attempt that fails
\* leaves its error as lastError; after the third failure and its delay the
\* error of the last attempt reaches fetchData, and the cycle fails.
C3_AttemptSteps ==
    \A k \in Slots :
        /\ \A resp \in GetAllResponses :
              GetAllSettles(k, resp) =>
                  IF operation(resp).ok
                  THEN /\ cycles'[k].pc = "prices"
                       /\ cycles'[k].accounts = resp.accounts
                  ELSE /\ cycles'[k].pc = "backoff"
                       /\ cycles'[k].lastError = operation(resp).err
        /\ (k \in DOMAIN cycles /\ cycles[k].pc = "prices"
                /\ Len(cycles') >= Len(cycles))
              => cycles'[k] = cycles[k]
        /\ ExhaustStep(k) =>
              /\ cycles[k].i + 1 = 3
              /\ Len(cycles') = Len(cycles) - 1
              /\ caught' = cycles[k].lastError
              /\ error' = FetchErrorMessage
        /\ (BackoffDone(k) /\ cycles[k].i + 1 < 3) =>
              /\ cycles'[k].pc = "getAll"
              /\ cycles'[k].i = cycles[k].i + 1
              /\ UNCHANGED <<error, caught, pendingRetries>>

\* C3 as stated: withRetry makes at most 3 attempts, returns the first
\* success without a further attempt, waits i seconds before attempt i
\* (the attempts numbered 1 to 3, as withRetry logs them), and after 3 failures
\* throws the error of the last attempt, which fails the cycle.
C3_DelayBeforeAttemptIsItsNumber ==
    /\ [](\A k \in DOMAIN cycles :
            /\ cycles[k].i + 1 <= 3
            /\ cycles[k].pc = "getAll"
                  => cycles[k].delay = (cycles[k].i + 1) * 1000)
    /\ [][C3_AttemptSteps]_vars

\* C3 as amended: withRetry makes at most 3 attempts, returns the first
\* success without a further attempt, waits n seconds after the n-th failed
\* attempt (so nothing before attempt 1, 1 s before attempt 2, 2 s before
\* attempt 3, and 3 s after the third failure), and then throws the error of
\* the last attempt, which fails the cycle.
C3_DelayAfterFailedAttemptIsItsNumber ==
    /\ [](\A k \in DOMAIN cycles :
            /\ cycles[k].i + 1 <= 3
            /\ cycles[k].pc = "getAll" => cycles[k].delay = cycles[k].i * 1000
            /\ cycles[k].pc = "backoff"
                  => cycles[k].delay = (cycles[k].i + 1) * 1000)
    /\ [][C3_AttemptSteps]_vars

C3_Witness ==
    /\ caught = "NetworkError"
    /\ error # null
    /\ \E k \in DOMAIN cycles : cycles[k].pc = "backoff" /\ cycles[k].delay = 3000

\* C6: whenever a fetch cycle completes successfully, what is published at
\* that moment is the snapshot of that cycle with the error flag clear.
C6_PublishedWithErrorClear ==
    [][ \A k \in Slots :
            PublishStep(k) =>
                /\ error' = null
                /\ rawAccounts' = cycles[k].accounts
                /\ positions' = snapshot(rawAccounts', priceResponses').positions
                /\ summaryData' = snapshot(rawAccounts', priceResponses').summary
                /\ chartData' = snapshot(rawAccounts', priceResponses').chartData
      ]_vars

\* C7: a price request that fails, or an answer without a price, does not fail
\* the cycle: the cycle publishes, the token's currentPrice and sellVolumeUSDC
\* are 0, and its buy-side figures are those any other answer would give.
C7_PriceFailureDegradesToZero ==
    cycles = <<>> =>
        /\ loading = FALSE /\ error = null /\ pendingRetries = <<>>
        /\ \A t \in Tokens :
              PriceFailed(priceResponses[t]) =>
                  /\ summaryData[t].sellVolumeUSDC = 0
                  /\ \A n \in DOMAIN positions :
                        positions[n].token = t => positions[n].currentPrice = 0
                  /\ \A r \in PriceResponses :
                        LET other == snapshot(rawAccounts,
                                        [priceResponses EXCEPT ![t] = r]).summary[t]
                        IN  /\ other.buyOrders = summaryData[t].buyOrders
                            /\ other.buyVolume = summaryData[t].buyVolume
                            /\ other.buyVolumeUSDC = summaryData[t].buyVolumeUSDC

C7_Witness ==
    /\ cycles = <<>>
    /\ priceResponses["LOGOS"].kind = "error"
    /\ priceResponses["CHAOS"].kind = "missing"
    /\ summaryData["LOGOS"].sellOrders > 0
    /\ summaryData["CHAOS"].buyVolumeUSDC > 0

\* C8: an empty or missing result of the account source is a failed attempt
\* of withRetry like a thrown error (same next state, same delay), and when the
\* attempts are used up the cycle fails and publishes no snapshot.
C8_EmptyResultIsFailedAttempt ==
    /\ [](\A k \in DOMAIN cycles :
            cycles[k].pc = "prices" => cycles[k].accounts # <<>>)
    /\ [][ \A k \in Slots :
            /\ \A resp \in GetAllResponses :
                  (GetAllSettles(k, resp) /\ resp.kind # "throw"
                        /\ resp.accounts = <<>>)
                     => /\ cycles'[k].pc = "backoff"
                        /\ cycles'[k].i = cycles[k].i
                        /\ cycles'[k].delay = (cycles[k].i + 1) * 1000
                        /\ cycles'[k].lastError = "No accounts returned"
            /\ (ExhaustStep(k) /\ cycles[k].lastError = "No accounts returned")
                  => /\ UNCHANGED <<positions, summaryData, chartData, rawAccounts>>
                     /\ error' = FetchErrorMessage
                     /\ caught' = "No accounts returned"
                     /\ pendingRetries' = Append(pendingRetries, 2000)
         ]_vars

C8_Witness == caught = "No accounts returned" /\ error # null /\ positions = <<>>

\* C9: disabling auto-refresh leaves the cycles in flight and what is
\* published untouched, and while it is disabled every cycle in flight can
\* still take its next step, a cycle waiting for prices its publication.
C9_DisablingKeepsCyclesRunning ==
    /\ [][ (autoRefresh /\ ~autoRefresh') =>
              /\ cycles' = cycles
              /\ armedIntervals' = 0
              /\ UNCHANGED <<pendingRetries, positions, summaryData, chartData,
                             loading, error>>
         ]_vars
    /\ [](~autoRefresh =>
            \A k \in DOMAIN cycles :
                /\ cycles[k].pc = "getAll" => ENABLED AttemptStep(k)
                /\ cycles[k].pc = "backoff" => ENABLED BackoffDone(k)
                /\ cycles[k].pc = "prices" => ENABLED PublishStep(k))

C9_Witness ==
    /\ ~autoRefresh
    /\ armedIntervals = 0
    /\ \E k \in DOMAIN cycles : cycles[k].pc = "prices"

ordersTotal ==
    summaryData["LOGOS"].buyOrders + summaryData["LOGOS"].sellOrders
    + summaryData["CHAOS"].buyOrders + summaryData["CHAOS"].sellOrders

TrackedMints == {LOGOS_MINT, CHAOS_MINT}

inputTracked == {n \in DOMAIN rawAccounts : rawAccounts[n].inputMint \in TrackedMints}

outputTracked == {n \in DOMAIN rawAccounts : rawAccounts[n].outputMint \in TrackedMints}

\* C10 as stated: the order counts of the two tracked tokens add up to the
\* number of raw accounts whose input or output mint is a tracked mint; no
\* account is counted more than once.
C10_OrdersCountMatchingAccounts ==
    cycles = <<>> => ordersTotal = Cardinality(inputTracked \cup outputTracked)

\* C10 as amended: the order counts add up to the number of accounts whose
\* output mint is tracked plus the number whose input mint is tracked; an
\* account that trades one tracked token for the other is counted twice, and
\* without such an account the sum is the number of matching accounts.
C10_OrdersCountMatchingSides ==
    cycles = <<>> =>
        /\ ordersTotal = Cardinality(inputTracked) + Cardinality(outputTracked)
        /\ (inputTracked \cap outputTracked = {})
              => ordersTotal = Cardinality(inputTracked \cup outputTracked)

C10_Witness ==
    /\ cycles = <<>>
    /\ \E n \in DOMAIN rawAccounts : rawAccounts[n] = A5
    /\ \E n \in DOMAIN rawAccounts : rawAccounts[n] = A6
    /\ ordersTotal = 2

\* the published positions of token t and direction type
positionsOfKind(t, type) ==
    {n \in DOMAIN positions : positions[n].token = t /\ positions[n].type = type}

\* C11: in every snapshot, for each tracked token T, summary[T].buyOrders is
\* the number of positions with token T and type BUY, summary[T].sellOrders the
\* number with token T and type SELL, and the single chart point of T carries
\* the order counts and volumes of summary[T].
C11_SummaryCountsPositions ==
    cycles = <<>> =>
        \A t \in Tokens :
            /\ summaryData[t].buyOrders = Cardinality(positionsOfKind(t, "BUY"))
            /\ summaryData[t].sellOrders = Cardinality(positionsOfKind(t, "SELL"))
            /\ Len(chartData[t]) = 1
            /\ chartData[t][1].buyOrders = summaryData[t].buyOrders
            /\ chartData[t][1].sellOrders = summaryData[t].sellOrders
            /\ chartData[t][1].buyVolume = summaryData[t].buyVolume
            /\ chartData[t][1].sellVolume = summaryData[t].sellVolume

C11_Witness ==
    /\ cycles = <<>>
    /\ summaryData["LOGOS"].buyOrders = 1
    /\ summaryData["LOGOS"].sellOrders = 2
    /\ Cardinality(positionsOfKind("CHAOS", "BUY")) = 1
    /\ chartData["LOGOS"][1].sellVolume = 2500000

\* C12: for every published position, estimatedOutput is present if and only
\* if the direction is SELL, and for a SELL position it is that position's
\* amountPerCycle multiplied by that position's currentPrice.
C12_EstimatedOutputIsPerCycleTimesPrice ==
    cycles = <<>> =>
        \A n \in DOMAIN positions :
            /\ positions[n].estimatedOutput # undefined
                  <=> positions[n].type = "SELL"
            /\ positions[n].type = "SELL" =>
                  positions[n].estimatedOutput
                      = Some(positions[n].amountPerCycle * positions[n].currentPrice)

\* C13: a snapshot published by one fetch cycle is never replaced by the
\* snapshot of a cycle that started earlier: no cycle publishes after a cycle
\* that started later than it has published.
C13_NoStaleOverwrite ==
    [][ \A k \in Slots : PublishStep(k) => ~cycles[k].overtaken ]_vars

\* fetchData fails before its first suspension (the SDK client is not set)
ImmediateFailStep == ~dca /\ (StartStep \/ RetryFire)

published == <<positions, summaryData, chartData, lastUpdate>>

\* The frame of a failure: a cycle that fails sets the error flag and touches
\* neither what is published nor loading nor autoRefresh; positions, summary,
\* chart data and lastUpdate change only in the step in which a cycle completes
\* successfully, which stores all four.
C14_FailureFrame ==
    [][ /\ \A k \in Slots :
              ExhaustStep(k) =>
                  /\ error' = FetchErrorMessage
                  /\ UNCHANGED <<published, loading, autoRefresh>>
        /\ ImmediateFailStep =>
              /\ error' = FetchErrorMessage
              /\ UNCHANGED <<published, autoRefresh>>
        /\ published' # published =>
              \E k \in Slots :
                  /\ PublishStep(k)
                  /\ positions' = snapshot(cycles[k].accounts, priceResponses').positions
                  /\ summaryData' = snapshot(cycles[k].accounts, priceResponses').summary
                  /\ chartData' = snapshot(cycles[k].accounts, priceResponses').chartData
                  /\ lastUpdate' # lastUpdate
      ]_vars

\* C14: a failed fetch cycle changes only the error flag and leaves loading
\* set: positions, summary, chart data and lastUpdate are unchanged by the
\* failure, and they are replaced only together, by a cycle that completes
\* successfully.
C14_FailureChangesOnlyError ==
    /\ C14_FailureFrame
    /\ [][ ((\E k \in Slots : ExhaustStep(k)) \/ ImmediateFailStep)
              => loading' = TRUE ]_vars

====
